---- MODULE Spec2Model ----
(***************************************************************************)
(* State-machine model of the inventory page component (the React          *)
(* component Page with its staging, upload, catalogue, selection and       *)
(* enrichment handlers) together with the HTTP backend it talks to.        *)
(*                                                                         *)
(* Modelling conventions                                                    *)
(*  - One action is one event-loop task of the browser: a UI event handler *)
(*    or the continuation of an async handler after an awaited response,   *)
(*    followed by the React re-render and the effects that the re-render   *)
(*    fires (useEffect on [fetchDocs, fetchProducts]).                     *)
(*  - An async handler closes over the values of the render in which it    *)
(*    was invoked.  The captured values (files, fetchProducts with its     *)
(*    page and pageSize) are stored in the handler record; state setters   *)
(*    act on the current state.                                            *)
(*  - The backend is an external collaborator: it answers a request in one *)
(*    step at the moment the response is delivered; every request may also *)
(*    fail.  Requests in flight are answered in any order.                 *)
(*  - sent is the sequence of requests issued by the last step, op the     *)
(*    name of the last step.                                               *)
(***************************************************************************)
EXTENDS Integers, Sequences, FiniteSets, Bags, TLC

\* ---------------------------------------------------------------- bounds
MaxFiles == 3        \* longest staged list explored
MaxBatch == 2        \* longest batch of candidates in one drop / pick
MaxSize == 2         \* file sizes 1..MaxSize
MaxProducts == 3     \* largest server catalogue explored
MaxEffFetch == 2     \* most effect-issued product fetches in flight at once

\* ------------------------------------------------------------- constants
PDF == "application/pdf"
FileTypes == {PDF, "text/plain"}
FileNames == {<<"a">>, <<"a", "-", "1">>}
FileSizes == 1..MaxSize

\* the vendor <select>: the empty option and one named vendor
Vendors == {<<>>, <<"V">>}

\* the page-size <select> and the initial page size, scaled down so that the
\* bounded catalogue spans several pages
PageSizeOptions == {1, 2}
InitPageSize == 1

\* ids of the products the backend holds when the page is opened
InitIds == {1, 2}
\* seo_name values: empty, whitespace only, a generated name
SeoValues == {<<>>, <<" ">>, <<"w">>}

\* toast texts are sequences: the fixed text, then the numbers it embeds
NoMsg == <<>>

\* ------------------------------------------------------------- variables
VARIABLES
  files,              \* useState<File[]>            staged files
  vendorName,         \* useState("")                vendor select
  error,              \* useState<string|null>       error toast
  success,            \* useState<string|null>       success toast
  docs,               \* useState<Doc[]>             loaded documents
  products,           \* useState<Product[]>         loaded product page
  allExtraFields,     \* useState<Set<string>>       extra-field schema
  selectedProductIds, \* useState<Set<number>>       selection
  page,               \* useState(1)
  pageSize,           \* useState(20)
  totalPages,         \* useState(1)
  loadingUpload,      \* useState(false)
  uploadingRef,       \* useRef(false)
  loadingMeta,        \* useState(false)
  loadingSeo,         \* useState(false)
  loadingName,        \* useState(false)
  loadingProducts,    \* useState(false)
  uploads,            \* suspended upload() invocations, with their closures
  pipe,               \* suspended pipeline handlers, one slot per stage
  effDocs,            \* fetchDocs calls of the effect awaiting a response
  effProds,           \* fetchProducts calls of the effect awaiting a response
  srvProducts,        \* backend: the product table
  srvFormatted,       \* backend: ids formatted by a formatted-name request
  op,                 \* name of the last step
  sent                \* requests issued by the last step

toastVars == <<error, success>>
catalogVars == <<docs, products, allExtraFields, totalPages, loadingProducts>>
pageVars == <<page, pageSize>>
uploadVars == <<loadingUpload, uploadingRef, vendorName>>
pipeVars == <<pipe, loadingMeta, loadingSeo, loadingName>>
effVars == <<effDocs, effProds>>
srvVars == <<srvProducts, srvFormatted>>

vars == <<files, vendorName, error, success, docs, products, allExtraFields,
          selectedProductIds, page, pageSize, totalPages, loadingUpload,
          uploadingRef, loadingMeta, loadingSeo, loadingName, loadingProducts,
          uploads, pipe, effDocs, effProds, srvProducts, srvFormatted, op, sent>>

\* --------------------------------------------------------------- helpers
RECURSIVE ToDigits(_)
\* decimal digits of a non-negative integer, as `${n}` renders it
ToDigits(n) ==
  LET d == <<"0","1","2","3","4","5","6","7","8","9">>
  IN IF n < 10 THEN <<d[n + 1]>> ELSE ToDigits(n \div 10) \o <<d[(n % 10) + 1]>>

\* `${f.name}-${f.size}`
FileKey(f) == f.name \o <<"-">> \o ToDigits(f.size)

RECURSIVE FilterSeq(_, _)
\* Array.prototype.filter: keeps the elements for which keep[i] holds, in order
FilterSeq(s, keep) ==
  IF s = <<>> THEN <<>>
  ELSE LET rest == FilterSeq(Tail(s), [i \in 1..(Len(s) - 1) |-> keep[i + 1]])
       IN IF keep[1] THEN <<Head(s)>> \o rest ELSE rest

\* variant: the new files are put in front of the staged ones
AppendNew_Prepend(prev, cands) ==
  LET existing == {FileKey(prev[i]) : i \in DOMAIN prev}
      keep == [i \in DOMAIN cands |-> FileKey(cands[i]) \notin existing]
  IN FilterSeq(cands, keep) \o prev

\* the functional update passed to setFiles by onDrop and handleFileSelect
AppendNew(prev, cands) ==
  LET existing == {FileKey(prev[i]) : i \in DOMAIN prev}
      keep == [i \in DOMAIN cands |-> FileKey(cands[i]) \notin existing]
  IN prev \o FilterSeq(cands, keep)

AllFiles == [name : FileNames, size : FileSizes, type : FileTypes]
Batches == UNION {[1..n -> AllFiles] : n \in 0..MaxBatch}

RECURSIVE TrimStart(_)
TrimStart(s) == IF s # <<>> /\ Head(s) = " " THEN TrimStart(Tail(s)) ELSE s

RECURSIVE Reverse(_)
Reverse(s) == IF s = <<>> THEN <<>> ELSE Reverse(Tail(s)) \o <<Head(s)>>

\* String.prototype.trim
Trim(s) == Reverse(TrimStart(Reverse(TrimStart(s))))

Min(a, b) == IF a < b THEN a ELSE b
Max(a, b) == IF a > b THEN a ELSE b

\* x || 1 on a number
OrOne(x) == IF x = 0 THEN 1 ELSE x

\* a request as it leaves the client; cause names the operation it is a
\* consequence of
Req(kind, pg, ps, ids, cause) ==
  [kind |-> kind, page |-> pg, pageSize |-> ps, ids |-> ids, cause |-> cause]

\* ---------------------------------------------------------------- backend
\* extra_fields keys of the product with a given id
ExtraKeys(id) ==
  IF id = 1 THEN {"warranty"} ELSE IF id = 2 THEN {"voltage"} ELSE {}

NewProduct(id, seo, fmt) ==
  [id |-> id, seo_name |-> seo, formatted_name_generated |-> fmt,
   extra_fields |-> ExtraKeys(id)]

\* GET list/?page=pg&page_size=ps : {products, total_pages}
ListResponse(pg, ps) ==
  LET n == Len(srvProducts)
      lo == (pg - 1) * ps + 1
      hi == Min(pg * ps, n)
  IN [products |-> IF lo > n THEN <<>> ELSE SubSeq(srvProducts, lo, hi),
      total_pages |-> (n + ps - 1) \div ps]

\* GET documents/ : one document per product row group; the body is either
\* the raw sequence or the envelope {documents: [...]}
DocsResponse(shape) ==
  LET list == [i \in 1..Len(srvProducts) |-> i]
  IN IF shape = "raw" THEN [raw |-> list] ELSE [documents |-> list]

DocShapes == {"raw", "envelope"}

\* POST generate-online-seo-name/ : every requested product that exists and
\* did not fail gets a generated seo_name
SeoApplied(ids, failed) ==
  [i \in DOMAIN srvProducts |->
     IF srvProducts[i].id \in (ids \ failed)
     THEN [srvProducts[i] EXCEPT !.seo_name = <<"w">>]
     ELSE srvProducts[i]]

\* POST generate-formatted-name/ : products with a seo_name that were not
\* formatted before are formatted, the others are skipped
FormatEligible(ids) ==
  {srvProducts[i].id : i \in {j \in DOMAIN srvProducts :
      /\ srvProducts[j].id \in ids
      /\ Trim(srvProducts[j].seo_name) # <<>>
      /\ ~srvProducts[j].formatted_name_generated}}

FormatApplied(ids) ==
  [i \in DOMAIN srvProducts |->
     IF srvProducts[i].id \in FormatEligible(ids)
     THEN [srvProducts[i] EXCEPT !.formatted_name_generated = TRUE]
     ELSE srvProducts[i]]

\* ------------------------------------------------------- derived (useMemo)
ProductIdsOf(ps) == {ps[i].id : i \in DOMAIN ps}

allSelectableCount ==
  Len(FilterSeq(products, [i \in DOMAIN products |-> products[i].id # 0]))

selectedCount == Cardinality(selectedProductIds)

selectedProducts ==
  FilterSeq(products, [i \in DOMAIN products |->
     products[i].id # 0 /\ products[i].id \in selectedProductIds])

\* variant: a seo_name of blanks only is taken for a name
missingSeoForSelected_NoTrim ==
  FilterSeq(selectedProducts, [i \in DOMAIN selectedProducts |->
     selectedProducts[i].seo_name = <<>>])

missingSeoForSelected ==
  FilterSeq(selectedProducts, [i \in DOMAIN selectedProducts |->
     selectedProducts[i].seo_name = <<>>
       \/ Len(Trim(selectedProducts[i].seo_name)) = 0])

\* variant: the formatted flag is not looked at
alreadyFormattedSelected_None ==
  FilterSeq(selectedProducts, [i \in DOMAIN selectedProducts |-> FALSE])

alreadyFormattedSelected ==
  FilterSeq(selectedProducts, [i \in DOMAIN selectedProducts |->
     selectedProducts[i].formatted_name_generated])

\* variant: res.data.documents || []
NormalizeDocs_EnvelopeOnly(data) ==
  IF "documents" \in DOMAIN data THEN data.documents ELSE <<>>

\* res.data.documents || res.data || []
NormalizeDocs(data) ==
  IF "documents" \in DOMAIN data THEN data.documents ELSE data.raw

\* the schema fetchProducts computes from a product list
ExtraFieldKeys(productsData) ==
  UNION {productsData[i].extra_fields : i \in DOMAIN productsData}

\* -------------------------------------------------------------- closures
IdleHandler == [phase |-> "idle", ids |-> {}, doc |-> 0, page |-> 0, pageSize |-> 0]
Stages == {"seo", "name", "meta"}

\* a user event was handled while an upload() invocation was suspended
Interleave(u) == [i \in DOMAIN u |-> [u[i] EXCEPT !.interleaved = TRUE]]

\* the effect of useEffect(..., [fetchDocs, fetchProducts]) for render (pg, ps)
EffectReqs(pg, ps, cause) ==
  <<Req("docs", 0, 0, {}, cause), Req("products", pg, ps, {}, cause)>>

EffectRoom == effDocs < MaxEffFetch /\ BagCardinality(effProds) < MaxEffFetch

\* ------------------------------------------------------------------ Init
\* the state after the first render and its effect: both catalogue fetches
\* are in flight
InitCatalogues ==
  {s \in [1..Cardinality(InitIds) -> [seo : SeoValues, fmt : BOOLEAN]] :
     \A i \in 1..Cardinality(InitIds) : s[i].fmt => Trim(s[i].seo) # <<>>}

\* a catalogue on which no enrichment has run yet
FreshCatalogue == [i \in 1..Cardinality(InitIds) |-> [seo |-> <<>>, fmt |-> FALSE]]

InitWith(catalogues) ==
  /\ files = <<>>
  /\ vendorName = <<>>
  /\ error = NoMsg
  /\ success = NoMsg
  /\ docs = <<>>
  /\ products = <<>>
  /\ allExtraFields = {}
  /\ selectedProductIds = {}
  /\ page = 1
  /\ pageSize = InitPageSize
  /\ totalPages = 1
  /\ loadingUpload = FALSE
  /\ uploadingRef = FALSE
  /\ loadingMeta = FALSE
  /\ loadingSeo = FALSE
  /\ loadingName = FALSE
  /\ loadingProducts = TRUE
  /\ uploads = <<>>
  /\ pipe = [s \in Stages |-> IdleHandler]
  /\ effDocs = 1
  /\ effProds = SetToBag({[page |-> 1, pageSize |-> InitPageSize]})
  /\ \E s \in catalogues :
       srvProducts = [i \in 1..Cardinality(InitIds) |-> NewProduct(i, s[i].seo, s[i].fmt)]
  /\ srvFormatted = {}
  /\ op = "mount"
  /\ sent = EffectReqs(1, InitPageSize, "mount")

Init == InitWith(InitCatalogues)
InitFresh == InitWith({FreshCatalogue})

\* the same first render against a backend that holds from no product (and
\* no document) up to the fresh catalogue
InitSized ==
  /\ files = <<>>
  /\ vendorName = <<>>
  /\ error = NoMsg
  /\ success = NoMsg
  /\ docs = <<>>
  /\ products = <<>>
  /\ allExtraFields = {}
  /\ selectedProductIds = {}
  /\ page = 1
  /\ pageSize = InitPageSize
  /\ totalPages = 1
  /\ loadingUpload = FALSE
  /\ uploadingRef = FALSE
  /\ loadingMeta = FALSE
  /\ loadingSeo = FALSE
  /\ loadingName = FALSE
  /\ loadingProducts = TRUE
  /\ uploads = <<>>
  /\ pipe = [s \in Stages |-> IdleHandler]
  /\ effDocs = 1
  /\ effProds = SetToBag({[page |-> 1, pageSize |-> InitPageSize]})
  /\ \E n \in 0..Cardinality(InitIds) :
       srvProducts = [i \in 1..n |-> NewProduct(i, <<>>, FALSE)]
  /\ srvFormatted = {}
  /\ op = "mount"
  /\ sent = EffectReqs(1, InitPageSize, "mount")

\* --------------------------------------------------------------- staging
notStaging == <<vendorName, success, docs, products, allExtraFields,
                selectedProductIds, page, pageSize, totalPages, loadingUpload,
                uploadingRef, loadingMeta, loadingSeo, loadingName,
                loadingProducts, pipe, effDocs, effProds, srvProducts,
                srvFormatted>>

onDrop(batch) ==
  LET dropped == FilterSeq(batch, [i \in DOMAIN batch |-> batch[i].type = PDF])
  IN /\ Len(files) + Len(batch) <= MaxFiles
     /\ op' = "onDrop"
     /\ sent' = <<>>
     /\ IF dropped = <<>>
        THEN UNCHANGED <<files, error>>
        ELSE /\ files' = AppendNew(files, dropped)
             /\ error' = NoMsg
     /\ uploads' = Interleave(uploads)
     /\ UNCHANGED notStaging

handleFileSelect(batch) ==
  /\ Len(files) + Len(batch) <= MaxFiles
  /\ op' = "handleFileSelect"
  /\ sent' = <<>>
  /\ IF batch = <<>>
     THEN UNCHANGED <<files, error>>
     ELSE /\ files' = AppendNew(files, batch)
          /\ error' = NoMsg
  /\ uploads' = Interleave(uploads)
  /\ UNCHANGED notStaging

\* s.filter((_, i) => i !== idx), idx counted from 0
WithoutIndex(s, idx) == FilterSeq(s, [i \in DOMAIN s |-> (i - 1) # idx])

removeFile(idx) ==
  /\ op' = "removeFile"
  /\ sent' = <<>>
  /\ files' = WithoutIndex(files, idx)
  /\ uploads' = Interleave(uploads)
  /\ UNCHANGED <<error, notStaging>>

clearAllFiles ==
  /\ op' = "clearAllFiles"
  /\ sent' = <<>>
  /\ files' = <<>>
  /\ uploads' = Interleave(uploads)
  /\ UNCHANGED <<error, notStaging>>

Drop == \E b \in Batches : onDrop(b)
Pick == \E b \in Batches : handleFileSelect(b)
Remove == \E idx \in 0..MaxFiles : removeFile(idx)

NextStaging == Drop \/ Pick \/ Remove \/ clearAllFiles

SpecStaging == InitFresh /\ [][NextStaging]_vars

\* ----------------------------------------------------- vendor, selection
SetVendor(v) ==
  /\ v # vendorName
  /\ op' = "setVendorName"
  /\ sent' = <<>>
  /\ vendorName' = v
  /\ uploads' = Interleave(uploads)
  /\ UNCHANGED <<files, toastVars, catalogVars, selectedProductIds, pageVars,
                 loadingUpload, uploadingRef, pipeVars, effVars, srvVars>>

notSelection == <<files, vendorName, toastVars, catalogVars, pageVars,
                  loadingUpload, uploadingRef, pipeVars, effVars, srvVars>>

\* variant: an id of 0 is toggled like any other
ToggledSelection_NoGuard(prev, id) ==
  IF id \in prev THEN prev \ {id} ELSE prev \cup {id}

\* the selection after toggleSelectProduct(id) on the selection prev; a
\* missing id (undefined or 0) is modelled as 0
ToggledSelection(prev, id) ==
  IF id = 0
  THEN prev
  ELSE IF id \in prev THEN prev \ {id} ELSE prev \cup {id}

\* variant: the row checkbox only ever adds the id
toggleSelectProduct_AddOnly(id) ==
  /\ op' = "toggleSelectProduct"
  /\ sent' = <<>>
  /\ IF id = 0
     THEN UNCHANGED selectedProductIds
     ELSE selectedProductIds' = selectedProductIds \cup {id}
  /\ uploads' = Interleave(uploads)
  /\ UNCHANGED notSelection

\* the row checkbox of a rendered product row
toggleSelectProduct(id) ==
  /\ op' = "toggleSelectProduct"
  /\ sent' = <<>>
  /\ selectedProductIds' = ToggledSelection(selectedProductIds, id)
  /\ uploads' = Interleave(uploads)
  /\ UNCHANGED notSelection

clearSelection ==
  /\ op' = "clearSelection"
  /\ sent' = <<>>
  /\ selectedProductIds' = {}
  /\ uploads' = Interleave(uploads)
  /\ UNCHANGED notSelection

\* variant: selectAll adds the page's ids to the selection it finds
selectAll_Union ==
  /\ op' = "selectAll"
  /\ sent' = <<>>
  /\ selectedProductIds' = selectedProductIds \cup (ProductIdsOf(products) \ {0})
  /\ uploads' = Interleave(uploads)
  /\ UNCHANGED notSelection

selectAll ==
  /\ op' = "selectAll"
  /\ sent' = <<>>
  /\ selectedProductIds' = ProductIdsOf(products) \ {0}
  /\ uploads' = Interleave(uploads)
  /\ UNCHANGED notSelection

\* rows are rendered only while no product fetch is loading
ToggleRow ==
  /\ ~loadingProducts
  /\ \E i \in DOMAIN products : toggleSelectProduct(products[i].id)

\* the header checkbox is rendered checked
headerChecked == Len(products) > 0 /\ selectedCount = allSelectableCount

\* the toggle button is labelled "Unselect All" and clears the selection
unselectAllLabel == selectedCount = allSelectableCount

\* the "Select All" / "Unselect All" button
SelectAllButton ==
  /\ Len(products) # 0
  /\ IF selectedCount = allSelectableCount THEN clearSelection ELSE selectAll

\* the header checkbox
HeaderCheckbox ==
  IF Len(products) > 0 /\ selectedCount = allSelectableCount
  THEN clearSelection
  ELSE selectAll

\* the "Clear" button
ClearButton ==
  /\ selectedCount # 0
  /\ clearSelection

\* ------------------------------------------------------------ pagination
notPaging == <<files, vendorName, toastVars, docs, products, allExtraFields,
               totalPages, selectedProductIds, loadingUpload, uploadingRef,
               pipeVars, srvVars>>

\* a render with a new (page, pageSize) gives fetchProducts a new identity and
\* the effect runs fetchDocs() and fetchProducts()
Rerender(pg, ps, cause) ==
  IF <<pg, ps>> = <<page, pageSize>>
  THEN /\ sent' = <<>>
       /\ UNCHANGED <<effVars, loadingProducts>>
  ELSE /\ EffectRoom
       /\ sent' = EffectReqs(pg, ps, cause)
       /\ effDocs' = effDocs + 1
       /\ effProds' = effProds (+) SetToBag({[page |-> pg, pageSize |-> ps]})
       /\ loadingProducts' = TRUE

PrevPage ==
  /\ op' = "prevPage"
  /\ page' = IF page <= 1 THEN page ELSE Max(1, page - 1)
  /\ pageSize' = pageSize
  /\ Rerender(page', pageSize, "prevPage")
  /\ uploads' = Interleave(uploads)
  /\ UNCHANGED notPaging

NextPage ==
  /\ op' = "nextPage"
  /\ page' = IF page >= totalPages THEN page ELSE Min(totalPages, page + 1)
  /\ pageSize' = pageSize
  /\ Rerender(page', pageSize, "nextPage")
  /\ uploads' = Interleave(uploads)
  /\ UNCHANGED notPaging

\* variant: the onChange handler without setPage(1)
ChangePageSize_KeepPage(v) ==
  /\ v # pageSize
  /\ op' = "changePageSize"
  /\ page' = page
  /\ pageSize' = v
  /\ Rerender(page, v, "changePageSize")
  /\ uploads' = Interleave(uploads)
  /\ UNCHANGED notPaging

ChangePageSize(v) ==
  /\ v # pageSize
  /\ op' = "changePageSize"
  /\ page' = 1
  /\ pageSize' = v
  /\ Rerender(1, v, "changePageSize")
  /\ uploads' = Interleave(uploads)
  /\ UNCHANGED notPaging

PickPageSize == \E v \in PageSizeOptions : ChangePageSize(v)

\* ------------------------------------------------- effect-issued fetches
\* fetchDocs() of the effect resumes
EffDocsDone(ok, shape) ==
  /\ effDocs > 0
  /\ op' = "fetchDocsDone"
  /\ sent' = <<>>
  /\ effDocs' = effDocs - 1
  /\ IF ok
     THEN /\ docs' = NormalizeDocs(DocsResponse(shape))
          /\ UNCHANGED error
     ELSE /\ error' = <<"Failed to fetch documents">>
          /\ UNCHANGED docs
  /\ UNCHANGED <<files, vendorName, success, products, allExtraFields,
                 totalPages, loadingProducts, selectedProductIds, pageVars,
                 loadingUpload, uploadingRef, uploads, pipeVars, effProds,
                 srvVars>>

\* variant: the schema accumulates the keys of every page fetched so far
FetchProductsResume_Accumulate(ok, pg, ps) ==
  /\ IF ok
     THEN LET productsData == ListResponse(pg, ps).products
          IN /\ products' = productsData
             /\ totalPages' = OrOne(ListResponse(pg, ps).total_pages)
             /\ allExtraFields' = allExtraFields \cup ExtraFieldKeys(productsData)
             /\ UNCHANGED error
     ELSE /\ error' = <<"Failed to fetch products">>
          /\ UNCHANGED <<products, totalPages, allExtraFields>>
  /\ loadingProducts' = FALSE

\* the body of fetchProducts after its await, for the (pg, ps) it closed over
FetchProductsResume(ok, pg, ps) ==
  /\ IF ok
     THEN LET productsData == ListResponse(pg, ps).products
          IN /\ products' = productsData
             /\ totalPages' = OrOne(ListResponse(pg, ps).total_pages)
             /\ allExtraFields' = ExtraFieldKeys(productsData)
             /\ UNCHANGED error
     ELSE /\ error' = <<"Failed to fetch products">>
          /\ UNCHANGED <<products, totalPages, allExtraFields>>
  /\ loadingProducts' = FALSE

EffProductsDone(ok) ==
  \E r \in BagToSet(effProds) :
    /\ op' = "fetchProductsDone"
    /\ sent' = <<>>
    /\ effProds' = effProds (-) SetToBag({r})
    /\ FetchProductsResume(ok, r.page, r.pageSize)
    /\ UNCHANGED <<files, vendorName, success, docs, selectedProductIds,
                   pageVars, loadingUpload, uploadingRef, uploads, pipeVars,
                   effDocs, srvVars>>

DocsArrive == \E ok \in BOOLEAN, shape \in DocShapes : EffDocsDone(ok, shape)
ProductsArrive == \E ok \in BOOLEAN : EffProductsDone(ok)

\* ---------------------------------------------------------------- upload
RemoveAt(s, i) == SubSeq(s, 1, i - 1) \o SubSeq(s, i + 1, Len(s))

\* variant: upload() without the vendor check
upload_NoVendorCheck ==
  /\ op' = "upload"
  /\ IF Len(files) = 0 \/ uploadingRef
     THEN /\ sent' = <<>>
          /\ UNCHANGED <<toastVars, uploadVars, uploads>>
     ELSE /\ uploadingRef' = TRUE
          /\ loadingUpload' = TRUE
          /\ error' = NoMsg
          /\ success' = NoMsg
          /\ uploads' = Append(uploads,
               [phase |-> "post", files |-> files, vendor |-> vendorName,
                page |-> page, pageSize |-> pageSize, interleaved |-> FALSE,
                docFetches |-> 0, prodFetches |-> 0])
          /\ sent' = <<Req("upload", 0, 0, {}, "upload")>>
          /\ UNCHANGED vendorName
  /\ UNCHANGED <<files, catalogVars, selectedProductIds, pageVars, pipeVars,
                 effVars, srvVars>>

\* variant: upload() without the uploadingRef guard
upload_NoMutex ==
  /\ op' = "upload"
  /\ IF Len(files) = 0
     THEN /\ sent' = <<>>
          /\ UNCHANGED <<toastVars, uploadVars, uploads>>
     ELSE IF Trim(vendorName) = <<>>
     THEN /\ sent' = <<>>
          /\ error' = <<"Please select a vendor before uploading.">>
          /\ UNCHANGED <<success, uploadVars, uploads>>
     ELSE /\ uploadingRef' = TRUE
          /\ loadingUpload' = TRUE
          /\ error' = NoMsg
          /\ success' = NoMsg
          /\ uploads' = Append(uploads,
               [phase |-> "post", files |-> files, vendor |-> vendorName,
                page |-> page, pageSize |-> pageSize, interleaved |-> FALSE,
                docFetches |-> 0, prodFetches |-> 0])
          /\ sent' = <<Req("upload", 0, 0, {}, "upload")>>
          /\ UNCHANGED vendorName
  /\ UNCHANGED <<files, catalogVars, selectedProductIds, pageVars, pipeVars,
                 effVars, srvVars>>

\* upload(): the guards, then the request; the closure keeps the files, the
\* vendor and the fetchProducts of the invoking render
upload ==
  /\ op' = "upload"
  /\ IF Len(files) = 0 \/ uploadingRef
     THEN /\ sent' = <<>>
          /\ UNCHANGED <<toastVars, uploadVars, uploads>>
     ELSE IF Trim(vendorName) = <<>>
     THEN /\ sent' = <<>>
          /\ error' = <<"Please select a vendor before uploading.">>
          /\ UNCHANGED <<success, uploadVars, uploads>>
     ELSE /\ uploadingRef' = TRUE
          /\ loadingUpload' = TRUE
          /\ error' = NoMsg
          /\ success' = NoMsg
          /\ uploads' = Append(uploads,
               [phase |-> "post", files |-> files, vendor |-> vendorName,
                page |-> page, pageSize |-> pageSize, interleaved |-> FALSE,
                docFetches |-> 0, prodFetches |-> 0])
          /\ sent' = <<Req("upload", 0, 0, {}, "upload")>>
          /\ UNCHANGED vendorName
  /\ UNCHANGED <<files, catalogVars, selectedProductIds, pageVars, pipeVars,
                 effVars, srvVars>>

\* the upload request succeeds: {uploaded, skipped, skipped_files?}; the
\* handler clears the staged files, reports, and awaits fetchDocs()
UploadPostOk(i, uploaded, withReasons) ==
  LET h == uploads[i]
      n == Len(srvProducts)
      skipped == Len(h.files) - uploaded
  IN /\ h.phase = "post"
     /\ uploaded \in 0..Len(h.files)
     /\ n + uploaded <= MaxProducts
     /\ op' = "uploadPostOk"
     /\ srvProducts' = srvProducts \o
          [k \in 1..uploaded |-> NewProduct(n + k, <<>>, FALSE)]
     /\ files' = <<>>
     /\ success' = IF skipped > 0
                   THEN <<"Uploaded", uploaded, "Skipped", skipped>>
                   ELSE <<"Uploaded", uploaded>>
     /\ error' = IF withReasons /\ skipped > 0 THEN <<"skipped_files">> ELSE error
     /\ sent' = <<Req("docs", 0, 0, {}, "upload")>>
     /\ uploads' = [uploads EXCEPT ![i].phase = "docs", ![i].docFetches = 1]
     /\ UNCHANGED <<uploadVars, catalogVars, selectedProductIds, pageVars,
                    pipeVars, effVars, srvFormatted>>

\* variant: the catch block also empties the staged list
UploadPostFail_ClearFiles(i, serverText) ==
  LET h == uploads[i]
  IN /\ h.phase = "post"
     /\ op' = "uploadPostFail"
     /\ sent' = <<>>
     /\ error' = IF serverText # NoMsg THEN serverText ELSE <<"Failed to upload PDFs">>
     /\ files' = <<>>
     /\ loadingUpload' = FALSE
     /\ vendorName' = <<>>
     /\ uploadingRef' = FALSE
     /\ uploads' = RemoveAt(uploads, i)
     /\ UNCHANGED <<success, catalogVars, selectedProductIds, pageVars,
                    pipeVars, effVars, srvVars>>

\* variant: the failure path without the finally block
UploadPostFail_NoFinally(i, serverText) ==
  LET h == uploads[i]
  IN /\ h.phase = "post"
     /\ op' = "uploadPostFail"
     /\ sent' = <<>>
     /\ error' = IF serverText # NoMsg THEN serverText ELSE <<"Failed to upload PDFs">>
     /\ uploads' = RemoveAt(uploads, i)
     /\ UNCHANGED <<files, success, uploadVars, catalogVars, selectedProductIds,
                    pageVars, pipeVars, effVars, srvVars>>

\* the upload request fails: catch, then finally
UploadPostFail(i, serverText) ==
  LET h == uploads[i]
  IN /\ h.phase = "post"
     /\ op' = "uploadPostFail"
     /\ sent' = <<>>
     /\ error' = IF serverText # NoMsg THEN serverText ELSE <<"Failed to upload PDFs">>
     /\ loadingUpload' = FALSE
     /\ vendorName' = <<>>
     /\ uploadingRef' = FALSE
     /\ uploads' = RemoveAt(uploads, i)
     /\ UNCHANGED <<files, success, catalogVars, selectedProductIds, pageVars,
                    pipeVars, effVars, srvVars>>

\* fetchDocs() of upload resumes; then setPage(1) and the call of the closed-over
\* fetchProducts; the re-render runs the effect when the page was not 1
UploadDocsDone(i, ok, shape) ==
  LET h == uploads[i]
      moved == page # 1
  IN /\ h.phase = "docs"
     /\ moved => EffectRoom
     /\ op' = "uploadDocsDone"
     /\ IF ok
        THEN /\ docs' = NormalizeDocs(DocsResponse(shape))
             /\ UNCHANGED error
        ELSE /\ error' = <<"Failed to fetch documents">>
             /\ UNCHANGED docs
     /\ page' = 1
     /\ loadingProducts' = TRUE
     /\ sent' = <<Req("products", h.page, h.pageSize, {}, "upload")>> \o
                (IF moved THEN EffectReqs(1, pageSize, "upload") ELSE <<>>)
     /\ effDocs' = IF moved THEN effDocs + 1 ELSE effDocs
     /\ effProds' = IF moved
                    THEN effProds (+) SetToBag({[page |-> 1, pageSize |-> pageSize]})
                    ELSE effProds
     /\ uploads' = [uploads EXCEPT
          ![i].phase = "products",
          ![i].docFetches = h.docFetches + (IF moved THEN 1 ELSE 0),
          ![i].prodFetches = h.prodFetches + 1 + (IF moved THEN 1 ELSE 0)]
     /\ UNCHANGED <<files, success, uploadVars, products, allExtraFields,
                    totalPages, selectedProductIds, pageSize, pipeVars, srvVars>>

\* variant: the selection is kept when the upload handler completes
UploadProductsDone_KeepSelection(i, ok) ==
  LET h == uploads[i]
  IN /\ h.phase = "products"
     /\ op' = IF h.interleaved THEN "uploadDoneInterleaved" ELSE "uploadDone"
     /\ sent' = <<>>
     /\ FetchProductsResume(ok, h.page, h.pageSize)
     /\ loadingUpload' = FALSE
     /\ vendorName' = <<>>
     /\ uploadingRef' = FALSE
     /\ uploads' = RemoveAt(uploads, i)
     /\ UNCHANGED <<files, success, docs, selectedProductIds, pageVars, pipeVars, effVars, srvVars>>

\* variant: the finally block leaves the vendor selection alone
UploadProductsDone_KeepVendor(i, ok) ==
  LET h == uploads[i]
  IN /\ h.phase = "products"
     /\ op' = IF h.interleaved THEN "uploadDoneInterleaved" ELSE "uploadDone"
     /\ sent' = <<>>
     /\ FetchProductsResume(ok, h.page, h.pageSize)
     /\ selectedProductIds' = {}
     /\ loadingUpload' = FALSE
     /\ uploadingRef' = FALSE
     /\ uploads' = RemoveAt(uploads, i)
     /\ UNCHANGED <<files, vendorName, success, docs, pageVars, pipeVars, effVars, srvVars>>

\* fetchProducts() of upload resumes; the selection is cleared; finally
UploadProductsDone(i, ok) ==
  LET h == uploads[i]
  IN /\ h.phase = "products"
     /\ op' = IF h.interleaved THEN "uploadDoneInterleaved" ELSE "uploadDone"
     /\ sent' = <<>>
     /\ FetchProductsResume(ok, h.page, h.pageSize)
     /\ selectedProductIds' = {}
     /\ loadingUpload' = FALSE
     /\ vendorName' = <<>>
     /\ uploadingRef' = FALSE
     /\ uploads' = RemoveAt(uploads, i)
     /\ UNCHANGED <<files, success, docs, pageVars, pipeVars, effVars, srvVars>>

ServerTexts == {NoMsg, <<"server error">>}

UploadAccepted ==
  \E i \in DOMAIN uploads, u \in 0..MaxFiles, w \in BOOLEAN : UploadPostOk(i, u, w)
UploadRefused ==
  \E i \in DOMAIN uploads, t \in ServerTexts : UploadPostFail(i, t)
UploadDocsArrive ==
  \E i \in DOMAIN uploads, ok \in BOOLEAN, shape \in DocShapes :
    UploadDocsDone(i, ok, shape)
UploadProductsArrive ==
  \E i \in DOMAIN uploads, ok \in BOOLEAN : UploadProductsDone(i, ok)

\* -------------------------------------------------------------- pipeline
notPipeStart == <<files, vendorName, catalogVars, selectedProductIds, pageVars,
                  loadingUpload, uploadingRef, effVars, srvVars>>

\* setLoadingSeo / setLoadingName / setLoadingMeta
SetLoading(stage, v) ==
  /\ loadingSeo' = IF stage = "seo" THEN v ELSE loadingSeo
  /\ loadingName' = IF stage = "name" THEN v ELSE loadingName
  /\ loadingMeta' = IF stage = "meta" THEN v ELSE loadingMeta

\* the common tail of the three handlers for a selection: the request carries
\* Array.from(selectedProductIds); the closure keeps fetchProducts
StartPipe(stage) ==
  /\ SetLoading(stage, TRUE)
  /\ error' = NoMsg
  /\ success' = NoMsg
  /\ pipe' = [pipe EXCEPT ![stage] =
       [phase |-> "post", ids |-> selectedProductIds, doc |-> 0,
        page |-> page, pageSize |-> pageSize]]
  /\ sent' = <<Req(stage, 0, 0, selectedProductIds, stage)>>

RejectPipe(msg) ==
  /\ error' = msg
  /\ sent' = <<>>
  /\ UNCHANGED <<success, pipeVars>>

\* variant: the SEO-name handler refuses products that are already formatted
generateOnlineSeoNameForSelected_Gated ==
  /\ ~loadingSeo
  /\ op' = "generateOnlineSeoNameForSelected"
  /\ IF selectedProductIds = {}
     THEN RejectPipe(<<"Select at least 1 product first.">>)
     ELSE IF Len(alreadyFormattedSelected) > 0
     THEN RejectPipe(<<"Product name already generated once for",
                       Len(alreadyFormattedSelected)>>)
     ELSE StartPipe("seo")
  /\ uploads' = Interleave(uploads)
  /\ UNCHANGED notPipeStart

generateOnlineSeoNameForSelected ==
  /\ ~loadingSeo
  /\ op' = "generateOnlineSeoNameForSelected"
  /\ IF selectedProductIds = {}
     THEN RejectPipe(<<"Select at least 1 product first.">>)
     ELSE StartPipe("seo")
  /\ uploads' = Interleave(uploads)
  /\ UNCHANGED notPipeStart

generateFormattedNameForSelected ==
  /\ ~loadingName
  /\ op' = "generateFormattedNameForSelected"
  /\ IF selectedProductIds = {}
     THEN RejectPipe(<<"Select at least 1 product first.">>)
     ELSE IF Len(missingSeoForSelected) > 0
     THEN RejectPipe(<<"SEO name missing for", Len(missingSeoForSelected)>>)
     ELSE IF Len(alreadyFormattedSelected) > 0
     THEN RejectPipe(<<"Product name already generated once for",
                       Len(alreadyFormattedSelected)>>)
     ELSE StartPipe("name")
  /\ uploads' = Interleave(uploads)
  /\ UNCHANGED notPipeStart

\* variant: the metadata handler refuses to start while an upload or the
\* SEO-name stage is in flight
generateMetadataForSelected_Exclusive ==
  /\ ~loadingMeta
  /\ op' = "generateMetadataForSelected"
  /\ IF selectedProductIds = {}
     THEN RejectPipe(<<"Select at least 1 product first.">>)
     ELSE IF uploadingRef \/ loadingSeo
     THEN RejectPipe(<<"Another operation is running">>)
     ELSE StartPipe("meta")
  /\ uploads' = Interleave(uploads)
  /\ UNCHANGED notPipeStart

\* variant: the metadata handler refuses products without a seo_name
generateMetadataForSelected_NeedsSeo ==
  /\ ~loadingMeta
  /\ op' = "generateMetadataForSelected"
  /\ IF selectedProductIds = {}
     THEN RejectPipe(<<"Select at least 1 product first.">>)
     ELSE IF Len(missingSeoForSelected) > 0
     THEN RejectPipe(<<"SEO name missing for", Len(missingSeoForSelected)>>)
     ELSE StartPipe("meta")
  /\ uploads' = Interleave(uploads)
  /\ UNCHANGED notPipeStart

generateMetadataForSelected ==
  /\ ~loadingMeta
  /\ op' = "generateMetadataForSelected"
  /\ IF selectedProductIds = {}
     THEN RejectPipe(<<"Select at least 1 product first.">>)
     ELSE StartPipe("meta")
  /\ uploads' = Interleave(uploads)
  /\ UNCHANGED notPipeStart

\* the button on a document card
generateMetadataForDocument(docId) ==
  /\ ~loadingMeta
  /\ op' = "generateMetadataForDocument"
  /\ loadingMeta' = TRUE
  /\ error' = NoMsg
  /\ success' = NoMsg
  /\ pipe' = [pipe EXCEPT !["meta"] =
       [phase |-> "post", ids |-> {}, doc |-> docId,
        page |-> page, pageSize |-> pageSize]]
  /\ sent' = <<[Req("meta", 0, 0, {}, "meta") EXCEPT !.ids = {}]>>
  /\ uploads' = Interleave(uploads)
  /\ UNCHANGED <<loadingSeo, loadingName, notPipeStart>>

MetadataForDocument == \E i \in DOMAIN docs : generateMetadataForDocument(docs[i])

\* the response body of a pipeline endpoint and the backend's update
PipeResult(stage, h, failed) ==
  IF stage = "name"
  THEN [updated |-> Cardinality(FormatEligible(h.ids)),
        skipped |-> h.ids \ FormatEligible(h.ids)]
  ELSE [updated |-> Cardinality(h.ids \ failed), failed |-> failed]

\* res.data.failed?.length ?? 0
FailedCount(data) ==
  IF "failed" \in DOMAIN data THEN Cardinality(data.failed) ELSE 0

\* variant: the handler also marks the loaded rows it asked for as formatted
PipePostOk_EditsRows(stage, failed) ==
  LET h == pipe[stage]
      data == PipeResult(stage, h, failed)
  IN /\ h.phase = "post"
     /\ failed \subseteq h.ids
     /\ stage = "name" => failed = {}
     /\ op' = "pipePostOk"
     /\ srvProducts' = IF stage = "seo" THEN SeoApplied(h.ids, failed)
                       ELSE IF stage = "name" THEN FormatApplied(h.ids)
                       ELSE srvProducts
     /\ srvFormatted' = IF stage = "name"
                        THEN srvFormatted \cup FormatEligible(h.ids)
                        ELSE srvFormatted
     /\ success' = <<stage, data.updated, FailedCount(data)>>
     /\ loadingProducts' = TRUE
     /\ pipe' = [pipe EXCEPT ![stage].phase = "products"]
     /\ sent' = <<Req("products", h.page, h.pageSize, {}, stage)>>
     /\ products' = [i \in DOMAIN products |->
          IF products[i].id \in h.ids
          THEN [products[i] EXCEPT !.formatted_name_generated = TRUE]
          ELSE products[i]]
     /\ UNCHANGED <<files, vendorName, error, docs, allExtraFields,
                    totalPages, selectedProductIds, pageVars, loadingUpload,
                    uploadingRef, loadingMeta, loadingSeo, loadingName, uploads,
                    effVars>>

\* the pipeline request succeeds: the summary is set and fetchProducts() awaited
PipePostOk(stage, failed) ==
  LET h == pipe[stage]
      data == PipeResult(stage, h, failed)
  IN /\ h.phase = "post"
     /\ failed \subseteq h.ids
     /\ stage = "name" => failed = {}
     /\ op' = "pipePostOk"
     /\ srvProducts' = IF stage = "seo" THEN SeoApplied(h.ids, failed)
                       ELSE IF stage = "name" THEN FormatApplied(h.ids)
                       ELSE srvProducts
     /\ srvFormatted' = IF stage = "name"
                        THEN srvFormatted \cup FormatEligible(h.ids)
                        ELSE srvFormatted
     /\ success' = <<stage, data.updated, FailedCount(data)>>
     /\ loadingProducts' = TRUE
     /\ pipe' = [pipe EXCEPT ![stage].phase = "products"]
     /\ sent' = <<Req("products", h.page, h.pageSize, {}, stage)>>
     /\ UNCHANGED <<files, vendorName, error, docs, products, allExtraFields,
                    totalPages, selectedProductIds, pageVars, loadingUpload,
                    uploadingRef, loadingMeta, loadingSeo, loadingName, uploads,
                    effVars>>

\* the generic messages of the three catch blocks
GenericFailure(stage, h) ==
  IF stage = "seo" THEN <<"Failed to generate SEO names">>
  ELSE IF stage = "name" THEN <<"Failed to format product names">>
  ELSE IF h.doc # 0 THEN <<"Failed to generate metadata for this document">>
  ELSE <<"Failed to generate metadata">>

\* variant: the failure path without the finally block
PipePostFail_NoFinally(stage, serverText) ==
  LET h == pipe[stage]
  IN /\ h.phase = "post"
     /\ op' = "pipePostFail"
     /\ sent' = <<>>
     /\ error' = IF serverText # NoMsg THEN serverText ELSE GenericFailure(stage, h)
     /\ pipe' = [pipe EXCEPT ![stage] = IdleHandler]
     /\ UNCHANGED <<files, vendorName, success, catalogVars, selectedProductIds,
                    pageVars, loadingUpload, uploadingRef, loadingMeta, loadingSeo,
                    loadingName, uploads, effVars, srvVars>>

\* the pipeline request fails: catch, then finally
PipePostFail(stage, serverText) ==
  LET h == pipe[stage]
  IN /\ h.phase = "post"
     /\ op' = "pipePostFail"
     /\ sent' = <<>>
     /\ error' = IF serverText # NoMsg THEN serverText ELSE GenericFailure(stage, h)
     /\ SetLoading(stage, FALSE)
     /\ pipe' = [pipe EXCEPT ![stage] = IdleHandler]
     /\ UNCHANGED <<files, vendorName, success, catalogVars, selectedProductIds,
                    pageVars, loadingUpload, uploadingRef, uploads, effVars,
                    srvVars>>

\* variant: a failed refetch is rethrown into the handler's catch block
PipeProductsDone_Rethrow(stage, ok) ==
  LET h == pipe[stage]
  IN /\ h.phase = "products"
     /\ op' = "pipeDone"
     /\ sent' = <<>>
     /\ IF ok
        THEN FetchProductsResume(ok, h.page, h.pageSize)
        ELSE /\ error' = GenericFailure(stage, h)
             /\ loadingProducts' = FALSE
             /\ UNCHANGED <<products, totalPages, allExtraFields>>
     /\ SetLoading(stage, FALSE)
     /\ pipe' = [pipe EXCEPT ![stage] = IdleHandler]
     /\ UNCHANGED <<files, vendorName, success, docs, selectedProductIds,
                    pageVars, loadingUpload, uploadingRef, uploads, effVars,
                    srvVars>>

\* fetchProducts() of a pipeline handler resumes; finally
PipeProductsDone(stage, ok) ==
  LET h == pipe[stage]
  IN /\ h.phase = "products"
     /\ op' = "pipeDone"
     /\ sent' = <<>>
     /\ FetchProductsResume(ok, h.page, h.pageSize)
     /\ SetLoading(stage, FALSE)
     /\ pipe' = [pipe EXCEPT ![stage] = IdleHandler]
     /\ UNCHANGED <<files, vendorName, success, docs, selectedProductIds,
                    pageVars, loadingUpload, uploadingRef, uploads, effVars,
                    srvVars>>

PipeAccepted ==
  \E stage \in Stages, failed \in SUBSET (1..MaxProducts) : PipePostOk(stage, failed)
PipeRefused ==
  \E stage \in Stages, t \in ServerTexts : PipePostFail(stage, t)
PipeProductsArrive ==
  \E stage \in Stages, ok \in BOOLEAN : PipeProductsDone(stage, ok)

\* ------------------------------------------------------------------ Next
Next ==
  \/ Drop \/ Pick \/ Remove \/ clearAllFiles
  \/ \E v \in Vendors : SetVendor(v)
  \/ ToggleRow \/ SelectAllButton \/ HeaderCheckbox \/ ClearButton
  \/ PrevPage \/ NextPage \/ PickPageSize
  \/ DocsArrive \/ ProductsArrive
  \/ upload \/ UploadAccepted \/ UploadRefused \/ UploadDocsArrive
  \/ UploadProductsArrive
  \/ generateOnlineSeoNameForSelected \/ generateFormattedNameForSelected
  \/ generateMetadataForSelected \/ MetadataForDocument
  \/ PipeAccepted \/ PipeRefused \/ PipeProductsArrive

Spec == Init /\ [][Next]_vars

\* ------------------------------------------------- focused specifications
\* Each specification below runs a subset of the handlers on the same state,
\* so that the state space of the part under study stays exhaustively
\* explorable.

File1 == [name |-> <<"a">>, size |-> 1, type |-> PDF]
File2 == [name |-> <<"a", "-", "1">>, size |-> 2, type |-> PDF]

PickOne == handleFileSelect(<<File1>>)
PickTwo == handleFileSelect(<<File1, File2>>)
ChooseVendor == SetVendor(<<"V">>)

DocsArriveOk == \E shape \in DocShapes : EffDocsDone(TRUE, shape)
ProductsArriveOk == EffProductsDone(TRUE)

\* staging alone, with batches over four files: two PDFs, a PDF that shares
\* its name with the first, and a text file that shares name and size with it
File3 == [name |-> <<"a">>, size |-> 2, type |-> PDF]
TextFile == [name |-> <<"a">>, size |-> 1, type |-> "text/plain"]
OrderFiles == {File1, File2, File3, TextFile}
OrderBatches == UNION {[1..n -> OrderFiles] : n \in 0..MaxBatch}

NextStagingOrder ==
  \/ \E b \in OrderBatches : onDrop(b)
  \/ \E b \in OrderBatches : handleFileSelect(b)
  \/ Remove
  \/ clearAllFiles

SpecStagingOrder == InitFresh /\ [][NextStagingOrder]_vars

\* the upload coordinator with staging and selection around it
NextUpload ==
  \/ PickOne \/ PickTwo \/ ChooseVendor
  \/ SelectAllButton
  \/ DocsArrive \/ ProductsArrive
  \/ upload \/ UploadAccepted \/ UploadRefused \/ UploadDocsArrive
  \/ UploadProductsArrive

SpecUpload == InitFresh /\ [][NextUpload]_vars

\* the same, with every request of the upload handler eventually answered
SpecUploadLive ==
  /\ InitFresh
  /\ [][NextUpload]_vars
  /\ WF_vars(UploadAccepted \/ UploadRefused)
  /\ WF_vars(UploadDocsArrive)
  /\ WF_vars(UploadProductsArrive)

\* the upload coordinator under page navigation
NextUploadNav ==
  \/ PickOne \/ ChooseVendor
  \/ PrevPage \/ NextPage
  \/ DocsArriveOk \/ ProductsArriveOk
  \/ upload \/ UploadAccepted \/ UploadRefused \/ UploadDocsArrive
  \/ UploadProductsArrive

SpecUploadNav == InitFresh /\ [][NextUploadNav]_vars

\* selection and the formatted-name stage across pages; the catalogues differ
\* in the enrichment state of product 1
FormatCatalogues ==
  {s \in InitCatalogues :
     \A i \in DOMAIN s : i # 1 => s[i] = [seo |-> <<"w">>, fmt |-> FALSE]}

NextFormat ==
  \/ ToggleRow \/ SelectAllButton
  \/ PrevPage \/ NextPage
  \/ DocsArriveOk \/ ProductsArriveOk
  \/ generateFormattedNameForSelected
  \/ PipeAccepted \/ PipeRefused \/ PipeProductsArrive

SpecFormat == InitWith(FormatCatalogues) /\ [][NextFormat]_vars

\* the formatted-name stage on a page that holds several products, over every
\* initial catalogue
NextFormatPage ==
  \/ PickPageSize
  \/ ToggleRow \/ SelectAllButton
  \/ DocsArriveOk \/ ProductsArriveOk
  \/ generateFormattedNameForSelected
  \/ PipeAccepted \/ PipeRefused \/ PipeProductsArrive

SpecFormatPage == Init /\ [][NextFormatPage]_vars

\* the SEO-name stage and the upload coordinator side by side on a fresh
\* catalogue, with the selection around them
NextEnrich ==
  \/ PickOne \/ ChooseVendor
  \/ SelectAllButton
  \/ DocsArriveOk \/ ProductsArrive
  \/ upload \/ UploadAccepted \/ UploadRefused \/ UploadDocsArrive
  \/ UploadProductsArrive
  \/ generateOnlineSeoNameForSelected
  \/ PipeAccepted \/ PipeRefused \/ PipeProductsArrive

SpecEnrich == InitFresh /\ [][NextEnrich]_vars

\* the same handlers with every catalogue fetch, the effect's document fetch
\* included, free to fail
NextFetchFail ==
  \/ PickOne \/ ChooseVendor
  \/ SelectAllButton
  \/ DocsArrive \/ ProductsArrive
  \/ upload \/ UploadAccepted \/ UploadRefused \/ UploadDocsArrive
  \/ UploadProductsArrive
  \/ generateOnlineSeoNameForSelected
  \/ PipeAccepted \/ PipeRefused \/ PipeProductsArrive

SpecFetchFail == InitFresh /\ [][NextFetchFail]_vars

\* the SEO-name and metadata stages on the first page, over every initial
\* catalogue
NextStages ==
  \/ ToggleRow
  \/ DocsArriveOk \/ ProductsArriveOk
  \/ generateOnlineSeoNameForSelected
  \/ generateMetadataForSelected \/ MetadataForDocument
  \/ PipeAccepted \/ PipeRefused \/ PipeProductsArrive

SpecStages == Init /\ [][NextStages]_vars

\* the document catalogue: the effect's fetch and the refetch after an
\* upload, starting from an empty or a filled backend
NextDocs ==
  \/ PickOne \/ ChooseVendor
  \/ DocsArrive \/ ProductsArriveOk
  \/ upload \/ UploadAccepted \/ UploadRefused \/ UploadDocsArrive
  \/ UploadProductsArrive

SpecDocs == InitSized /\ [][NextDocs]_vars

\* an upload that the backend refuses, two pipeline stages that succeed,
\* staging, selection and navigation side by side
PipeAcceptedAll == \E stage \in Stages : PipePostOk(stage, {})
PipeProductsArriveOk == \E stage \in Stages : PipeProductsDone(stage, TRUE)

NextConcurrent ==
  \/ PickOne \/ clearAllFiles \/ ChooseVendor
  \/ SelectAllButton
  \/ NextPage
  \/ DocsArriveOk \/ ProductsArriveOk
  \/ upload \/ UploadRefused
  \/ generateOnlineSeoNameForSelected \/ generateMetadataForSelected
  \/ PipeAcceptedAll \/ PipeProductsArriveOk

SpecConcurrent == InitFresh /\ [][NextConcurrent]_vars

\* the selection controls under page navigation
NextSelect ==
  \/ ToggleRow \/ SelectAllButton \/ HeaderCheckbox
  \/ PrevPage \/ NextPage \/ PickPageSize
  \/ DocsArriveOk \/ ProductsArriveOk

SpecSelect == InitFresh /\ [][NextSelect]_vars

\* catalogue fetches that succeed or fail, under page navigation
NextCatalog ==
  \/ PrevPage \/ NextPage \/ PickPageSize
  \/ DocsArriveOk \/ ProductsArrive

SpecCatalog == InitFresh /\ [][NextCatalog]_vars

\* catalogue fetches that all succeed, under page navigation
NextCatalogOk ==
  \/ PrevPage \/ NextPage \/ PickPageSize
  \/ DocsArriveOk \/ ProductsArriveOk

SpecCatalogOk == InitFresh /\ [][NextCatalogOk]_vars

\* --------------------------------------------------------------- claims
\* the component's state without the observation variables op and sent
progVars == <<files, vendorName, error, success, docs, products, allExtraFields,
              selectedProductIds, page, pageSize, totalPages, loadingUpload,
              uploadingRef, loadingMeta, loadingSeo, loadingName,
              loadingProducts, uploads, pipe, effDocs, effProds, srvProducts,
              srvFormatted>>

\* C1: after any sequence of add (drop or file picker), remove and clear
\* operations no two staged files share the same (name, size).
C1_NoDuplicateStaged ==
  \A i, j \in DOMAIN files :
    i # j => <<files[i].name, files[i].size>> # <<files[j].name, files[j].size>>

\* C2: at most one upload request is in flight; an upload() invoked while the
\* coordinator is Uploading sends nothing and changes nothing, and an upload
\* request is only ever sent by an upload() invoked while Idle.
C2_UploadMutex ==
  [][ /\ Cardinality({i \in DOMAIN uploads' : uploads'[i].phase = "post"}) <= 1
      /\ (op' = "upload" /\ uploadingRef) => (sent' = <<>> /\ UNCHANGED progVars)
      /\ \A k \in DOMAIN sent' :
           sent'[k].kind = "upload" => (op' = "upload" /\ ~uploadingRef) ]_vars

\* an upload() was invoked with staged files and a vendor while an upload
\* request was in flight, and sent nothing
C2_Witness ==
  /\ op = "upload"
  /\ sent = <<>>
  /\ uploadingRef
  /\ Len(files) > 0
  /\ Trim(vendorName) # <<>>
  /\ \E i \in DOMAIN uploads : uploads[i].phase = "post"

\* C3: every product id in the request of a pipeline call is the id of a
\* product on the currently loaded page.
C3_RequestIdsOnLoadedPage ==
  \A k \in DOMAIN sent :
    sent[k].kind \in Stages => sent[k].ids \subseteq ProductIdsOf(products)

IsBlank(s) == \A k \in DOMAIN s : s[k] = " "

\* C4: when a selected product of the loaded page has an empty or blank
\* seo_name, generateFormattedName sends nothing and leaves the loaded
\* products, the selection and the backend's products as they were.
C4_MissingSeoRejected ==
  [][ ( /\ op' = "generateFormattedNameForSelected"
        /\ \E i \in DOMAIN products :
             /\ products[i].id \in selectedProductIds
             /\ IsBlank(products[i].seo_name) )
      => ( /\ sent' = <<>>
           /\ UNCHANGED <<products, selectedProductIds, srvProducts>> ) ]_vars

\* generateFormattedName has just rejected a selection that holds a loaded
\* product whose seo_name is whitespace only
C4_Witness ==
  /\ op = "generateFormattedNameForSelected"
  /\ sent = <<>>
  /\ Len(error) = 2 /\ error[1] = "SEO name missing for"
  /\ \E i \in DOMAIN products :
       /\ products[i].id \in selectedProductIds
       /\ products[i].seo_name = <<" ">>

\* C5: when a selected product of the loaded page is already formatted,
\* generateFormattedName sends nothing and sets an error, also when every
\* selected product has a seo_name.
C5_AlreadyFormattedRejected ==
  [][ ( /\ op' = "generateFormattedNameForSelected"
        /\ \E i \in DOMAIN products :
             /\ products[i].id \in selectedProductIds
             /\ products[i].formatted_name_generated )
      => ( sent' = <<>> /\ error' # NoMsg ) ]_vars

\* generateFormattedName has just rejected a selection in which every loaded
\* product has a seo_name and one is already formatted
C5_Witness ==
  /\ op = "generateFormattedNameForSelected"
  /\ sent = <<>>
  /\ Len(error) = 2 /\ error[1] = "Product name already generated once for"
  /\ \A i \in DOMAIN products :
       products[i].id \in selectedProductIds => ~IsBlank(products[i].seo_name)
  /\ \E i \in DOMAIN products :
       /\ products[i].id \in selectedProductIds
       /\ products[i].formatted_name_generated

\* C6: no formatted-name request carries the id of a product that the backend
\* formatted in response to an earlier formatted-name request.
C6_NeverReformat ==
  \A k \in DOMAIN sent :
    sent[k].kind = "name" => sent[k].ids \cap srvFormatted = {}

Quiescent ==
  /\ effDocs = 0
  /\ effProds = EmptyBag
  /\ uploads = <<>>
  /\ \A s \in Stages : pipe[s].phase = "idle"

\* C7: once every request has been answered successfully, the loaded product
\* list is the backend's content for the current (page, pageSize).
C7_ConvergesToServer ==
  Quiescent => products = ListResponse(page, pageSize).products

\* C8: a successful upload causes exactly one document-list fetch and exactly
\* one product-list fetch.
C8_OneRefreshEach ==
  \A i \in DOMAIN uploads :
    uploads[i].phase = "products" =>
      uploads[i].docFetches = 1 /\ uploads[i].prodFetches = 1

\* C9: every product fetch that a successful upload causes requests page 1.
C9_UploadFetchesPageOne ==
  \A k \in DOMAIN sent :
    (sent[k].kind = "products" /\ sent[k].cause = "upload") => sent[k].page = 1

\* C10: when the handler of a successful upload completes and no user event
\* was handled meanwhile, no file is staged and nothing is selected.
C10_UploadClears ==
  op = "uploadDone" => (files = <<>> /\ selectedProductIds = {})

\* an upload whose response reported skipped files has just completed
C10_Witness ==
  /\ op = "uploadDone"
  /\ Len(success) = 4 /\ success[4] > 0
  /\ files = <<>>
  /\ selectedProductIds = {}

C12_RejectedUploadChangesNothing ==
  [][ (op' = "upload" /\ (Len(files) = 0 \/ IsBlank(vendorName)))
      => ( /\ sent' = <<>>
           /\ UNCHANGED <<uploadingRef, loadingUpload, uploads>>
           /\ UNCHANGED <<files, selectedProductIds, docs, products,
                          allExtraFields, totalPages>> ) ]_vars

\* an idle upload() with a staged file and no vendor has just been rejected
\* while products were loaded and selected
C12_Witness ==
  /\ op = "upload"
  /\ sent = <<>>
  /\ error = <<"Please select a vendor before uploading.">>
  /\ Len(files) > 0
  /\ vendorName = <<>>
  /\ selectedProductIds # {}
  /\ uploads = <<>>
  /\ ~uploadingRef

\* C13: every locally rejected operation leaves an error message: an idle
\* upload() that sends nothing (no staged file, or no vendor), and a
\* pipeline-for-selection handler that sends nothing (empty selection, or the
\* order precondition of the formatted-name stage).
C13_RejectionSetsError ==
  /\ (op = "upload" /\ sent = <<>> /\ ~uploadingRef) => error # NoMsg
  /\ ( /\ op \in {"generateOnlineSeoNameForSelected",
                   "generateFormattedNameForSelected",
                   "generateMetadataForSelected"}
       /\ sent = <<>> ) => error # NoMsg

\* the fixed texts of the error toast (the numbers they embed follow them)
ErrorTexts == {error[k] : k \in {j \in DOMAIN error : j % 2 = 1}}

\* C14: when generateFormattedName rejects locally, the error names each
\* sub-condition that some selected product fails: missing seo_name and
\* already formatted are both reported when the selection holds one of each.
C14_RejectionNamesEveryFailure ==
  (op = "generateFormattedNameForSelected" /\ sent = <<>>)
    => ( /\ Len(missingSeoForSelected) > 0
              => "SEO name missing for" \in ErrorTexts
         /\ Len(alreadyFormattedSelected) > 0
              => "Product name already generated once for" \in ErrorTexts )

\* C15: every staged file has the accepted content type, whichever entry
\* point (drop or file picker) added it.
C15_StagedFilesArePdf ==
  \A i \in DOMAIN files : files[i].type = PDF

\* C16: the step that handles a successful pipeline response issues exactly
\* one request, a product fetch for the page and page size the component
\* holds at that moment.
C16_PipelineRefetchesCurrentPage ==
  op = "pipePostOk"
    => ( /\ Len(sent) = 1
         /\ sent[1].kind = "products"
         /\ sent[1].page = page
         /\ sent[1].pageSize = pageSize )

\* the product-list requests that are awaiting their response
PendingProductFetches ==
  BagToSet(effProds)
    \cup {[page |-> uploads[i].page, pageSize |-> uploads[i].pageSize] :
            i \in {j \in DOMAIN uploads : uploads[j].phase = "products"}}
    \cup {[page |-> pipe[st].page, pageSize |-> pipe[st].pageSize] :
            st \in {t \in Stages : pipe[t].phase = "products"}}

\* C17: the loaded product list changes only in a step that receives a
\* product-list response, and then becomes exactly that response's products
\* payload; a pipeline response or failure, an upload response and a selection
\* operation leave every loaded product as it was.
C17_ProductsOnlyFromFetch ==
  [][ /\ products' # products
          => ( /\ op' \in {"fetchProductsDone", "pipeDone", "uploadDone",
                           "uploadDoneInterleaved"}
               /\ \E r \in PendingProductFetches :
                    products' = ListResponse(r.page, r.pageSize).products )
      /\ op' \in {"pipePostOk", "pipePostFail", "uploadPostOk", "uploadPostFail",
                  "uploadDocsDone", "selectAll", "clearSelection",
                  "toggleSelectProduct"}
          => products' = products ]_vars

\* a successful SEO-name response has just been handled: the backend's
\* product carries the new name, the loaded row is still the fetched one
C17_Witness ==
  /\ op = "pipePostOk"
  /\ Len(products) > 0
  /\ products[1].seo_name = <<>>
  /\ srvProducts[1].seo_name # <<>>
  /\ products[1].id = srvProducts[1].id

\* C18: the step that changes the page size sets page to 1 and issues a
\* product fetch; every product fetch it issues carries the new page size
\* with page 1, none carries the new page size with the page that was
\* current before the change.
C18_PageSizeChangeFetchesPageOne ==
  [][ op' = "changePageSize"
      => ( /\ pageSize' # pageSize
           /\ page' = 1
           /\ \E k \in DOMAIN sent' : sent'[k].kind = "products"
           /\ \A k \in DOMAIN sent' :
                sent'[k].kind = "products"
                  => (sent'[k].pageSize = pageSize' /\ sent'[k].page = 1) ) ]_vars

\* the page size has just been changed while the fetch for page 2 of the old
\* page size was still awaiting its response
C18_Witness ==
  /\ op = "changePageSize"
  /\ pageSize = 2
  /\ page = 1
  /\ [page |-> 2, pageSize |-> 1] \in BagToSet(effProds)
  /\ \E k \in DOMAIN sent :
       sent[k].kind = "products" /\ sent[k].page = 1 /\ sent[k].pageSize = 2

\* C19: every product-list request carries a page between 1 and the
\* backend's page count for the page size of that same request.
C19_RequestedPageInRange ==
  \A k \in DOMAIN sent :
    sent[k].kind = "products"
      => ( /\ 1 <= sent[k].page
           /\ sent[k].page
                <= Max(1, ListResponse(sent[k].page, sent[k].pageSize).total_pages) )

\* C20: in every reachable state the page is between 1 and totalPages.
C20_PageWithinTotalPages ==
  1 <= page /\ page <= totalPages

\* C21: in every reachable state the extra-field schema is the union of the
\* extra_fields keys of the loaded products; keys of an earlier page are not
\* retained and a failed fetch leaves both as they were.
C21_SchemaOfLoadedPage ==
  allExtraFields = ExtraFieldKeys(products)

\* a product fetch has just failed while page 2 was loaded, after page 1 with
\* another key had been loaded before it
C21_Witness ==
  /\ op = "fetchProductsDone"
  /\ error = <<"Failed to fetch products">>
  /\ Len(products) = 1
  /\ products[1].id = 2
  /\ allExtraFields = {"voltage"}
  /\ ExtraKeys(1) = {"warranty"}

\* C22: selectAll sets the selection to exactly the ids of the products on
\* the loaded page: ids selected before on other pages are dropped and no id
\* from outside the loaded page is added.
C22_SelectAllIsLoadedPage ==
  [][ op' = "selectAll"
      => ( /\ selectedProductIds' = ProductIdsOf(products)
           /\ products' = products ) ]_vars

\* selectAll has just run on page 2 of a two-page catalogue
C22_Witness ==
  /\ op = "selectAll"
  /\ page = 2
  /\ pageSize = 1
  /\ ProductIdsOf(products) = {2}
  /\ selectedProductIds = {2}
  /\ Len(srvProducts) = 2

\* C23: a toggle of a loaded product's row right after selectAll removes
\* exactly that id from the selection; selectAll on a page without products
\* gives the empty selection.
C23_SelectAllThenToggle ==
  [][ /\ (op = "selectAll" /\ op' = "toggleSelectProduct")
          => \E id \in ProductIdsOf(products) :
               /\ id \in selectedProductIds
               /\ selectedProductIds' = selectedProductIds \ {id}
               /\ Cardinality(selectedProductIds')
                    = Cardinality(selectedProductIds) - 1
      /\ (op' = "selectAll" /\ products = <<>>)
          => selectedProductIds' = {} ]_vars

\* one row of a two-product page has just been toggled and the other row is
\* still selected
C23_Witness ==
  /\ op = "toggleSelectProduct"
  /\ Len(products) = 2
  /\ Cardinality(selectedProductIds) = 1
  /\ selectedProductIds \subseteq ProductIdsOf(products)

\* C24: when a pipeline response lists entries that were not updated, the
\* summary shown to the user carries their number (every requested id is
\* either counted as updated or listed), and the handler refetches the
\* product page.
C24_SummaryCountsNotUpdated ==
  op = "pipePostOk"
    => ( /\ \E k \in DOMAIN sent : sent[k].kind = "products"
         /\ \A st \in Stages :
              success[1] = st
                => success[3] = Cardinality(pipe[st].ids) - success[2] )

\* C25: the SEO-name handler's only precondition is a non-empty selection:
\* with the empty selection it sends nothing and sets an error, with any
\* other selection it sends the request for exactly the selected ids,
\* whatever the seo_name and formatted flag of the selected products.
C25_SeoOnlyNeedsSelection ==
  [][ op' = "generateOnlineSeoNameForSelected"
      => IF selectedProductIds = {}
         THEN sent' = <<>> /\ error' # NoMsg
         ELSE sent' = <<Req("seo", 0, 0, selectedProductIds, "seo")>> ]_vars

\* the SEO-name request has just been sent for a loaded product that has a
\* seo_name and is already formatted
C25_Witness ==
  /\ op = "generateOnlineSeoNameForSelected"
  /\ Len(sent) = 1 /\ sent[1].kind = "seo"
  /\ \E i \in DOMAIN products :
       /\ products[i].id \in sent[1].ids
       /\ products[i].formatted_name_generated
       /\ products[i].seo_name # <<>>

\* C26: metadata-for-selection sends its request for every non-empty
\* selection, whatever the seo_name and formatted flag of the selected
\* products; metadata-for-document sends its request whatever the selection
\* is, the empty one included.
C26_MetadataNotGated ==
  [][ /\ (op' = "generateMetadataForSelected" /\ selectedProductIds # {})
          => sent' = <<Req("meta", 0, 0, selectedProductIds, "meta")>>
      /\ op' = "generateMetadataForDocument"
          => (Len(sent') = 1 /\ sent'[1].kind = "meta") ]_vars

\* the metadata request has just been sent for a selected loaded product
\* without a seo_name
C26_Witness ==
  /\ op = "generateMetadataForSelected"
  /\ Len(sent) = 1 /\ sent[1].kind = "meta"
  /\ \E i \in DOMAIN products :
       /\ products[i].id \in sent[1].ids
       /\ IsBlank(products[i].seo_name)
       /\ ~products[i].formatted_name_generated

\* C27: the normalization of a document-list response gives the same
\* sequence for the raw-sequence body and for the envelope body that hold
\* the same documents, the empty sequence included; a successful document
\* fetch stores that sequence whichever body arrived.
C27_DocsNormalizedAlike ==
  [][ op' \in {"fetchDocsDone", "uploadDocsDone"}
      => ( /\ NormalizeDocs(DocsResponse("raw"))
                = NormalizeDocs(DocsResponse("envelope"))
           /\ docs' # docs
                => ( /\ docs' = NormalizeDocs(DocsResponse("raw"))
                     /\ docs' = NormalizeDocs(DocsResponse("envelope")) ) ) ]_vars

\* the document fetch after the first upload to an empty backend has just
\* replaced the empty document list
C27_Witness ==
  /\ op = "uploadDocsDone"
  /\ Len(docs) = 1
  /\ Len(srvProducts) = 1
  /\ error = NoMsg

\* C28: the coordinator is Uploading exactly while an upload handler is
\* suspended on its request, its document refetch or its product refetch;
\* when every request is eventually answered, Uploading always leads back to
\* Idle.
C28_UploadingLeadsToIdle ==
  /\ [](/\ uploadingRef <=> uploads # <<>>
        /\ loadingUpload <=> uploads # <<>>)
  /\ (uploadingRef ~> ~uploadingRef)

\* a successful upload has gone through both refetches and the coordinator
\* is idle again
C28_Witness ==
  /\ op = "uploadDone"
  /\ ~uploadingRef
  /\ ~loadingUpload
  /\ uploads = <<>>
  /\ Len(success) >= 2 /\ success[1] = "Uploaded"

\* C29: only upload() is refused while an upload is in flight: a staging
\* edit, selectAll, a page change and a pipeline call made meanwhile act as
\* they do otherwise, and a pipeline call of one stage sends its request
\* while the call of another stage is in flight.
C29_OnlyUploadIsExclusive ==
  [][ /\ uploadingRef
          => ( /\ op' = "clearAllFiles" => files' = <<>>
               /\ (op' = "handleFileSelect" /\ files = <<>>) => files' = <<File1>>
               /\ op' = "selectAll" => selectedProductIds' = ProductIdsOf(products)
               /\ (op' = "nextPage" /\ page < totalPages)
                    => ( /\ page' = page + 1
                         /\ \E k \in DOMAIN sent' :
                              sent'[k].kind = "products" /\ sent'[k].page = page' )
               /\ (op' = "upload") => (sent' = <<>> /\ uploads' = uploads) )
      /\ (op' = "generateOnlineSeoNameForSelected" /\ selectedProductIds # {})
          => sent' = <<Req("seo", 0, 0, selectedProductIds, "seo")>>
      /\ (op' = "generateMetadataForSelected" /\ selectedProductIds # {})
          => sent' = <<Req("meta", 0, 0, selectedProductIds, "meta")>> ]_vars

\* the metadata request has just been sent while the upload request and the
\* SEO-name request were in flight
C29_Witness ==
  /\ op = "generateMetadataForSelected"
  /\ uploadingRef
  /\ Len(uploads) = 1 /\ uploads[1].phase = "post"
  /\ pipe["seo"].phase = "post"
  /\ pipe["meta"].phase = "post"
  /\ Len(sent) = 1 /\ sent[1].kind = "meta"

RECURSIVE IsSubseq(_, _)
\* t can be obtained from b by deleting elements, keeping the order
IsSubseq(t, b) ==
  IF t = <<>> THEN TRUE
  ELSE IF b = <<>> THEN FALSE
  ELSE IF Head(t) = Head(b) THEN IsSubseq(Tail(t), Tail(b))
  ELSE IsSubseq(t, Tail(b))

\* r is prev followed by every candidate of b that is accepted, in b's order
AppendsInOrder(prev, b, accepted, r) ==
  LET added == SubSeq(r, Len(prev) + 1, Len(r))
  IN /\ Len(r) >= Len(prev)
     /\ SubSeq(r, 1, Len(prev)) = prev
     /\ IsSubseq(added, b)
     /\ Len(added) = Cardinality({i \in DOMAIN b : accepted[i]})
     /\ \A k \in DOMAIN added : \E i \in DOMAIN b : accepted[i] /\ b[i] = added[k]

\* C30: the staged list keeps its order: for every batch, a pick or a drop
\* leaves the staged files in place and appends the accepted new candidates
\* in candidate order; removing a valid index removes exactly that file,
\* removing an index out of range changes nothing, and clear empties the list.
C30_StagedOrderKept ==
  LET keys == {FileKey(files[i]) : i \in DOMAIN files}
  IN /\ \A b \in OrderBatches :
          /\ AppendsInOrder(files, b,
               [i \in DOMAIN b |-> FileKey(b[i]) \notin keys],
               AppendNew(files, b))
          /\ AppendsInOrder(files, b,
               [i \in DOMAIN b |-> b[i].type = PDF /\ FileKey(b[i]) \notin keys],
               AppendNew(files,
                 FilterSeq(b, [i \in DOMAIN b |-> b[i].type = PDF])))
     /\ \A idx \in 0..MaxFiles :
          WithoutIndex(files, idx)
            = IF idx < Len(files) THEN RemoveAt(files, idx + 1) ELSE files
     /\ op = "clearAllFiles" => files = <<>>

\* a file has just been removed and two different files are left
C30_Witness ==
  /\ op = "removeFile"
  /\ Len(files) = 2
  /\ FileKey(files[1]) # FileKey(files[2])

\* C31: when a pipeline request fails, the handler sends nothing, sets the
\* error to the server's text or else to the generic message of its stage,
\* resets the loading flag of its stage, and leaves the loaded products, the
\* selection and the page as they were.
C31_PipelineFailure ==
  [][ op' = "pipePostFail"
      => ( /\ sent' = <<>>
           /\ UNCHANGED <<products, totalPages, allExtraFields,
                          selectedProductIds, page, pageSize>>
           /\ \E st \in Stages :
                /\ pipe[st].phase = "post"
                /\ pipe'[st].phase = "idle"
                /\ error' \in
                     {<<"server error">>,
                      IF st = "seo" THEN <<"Failed to generate SEO names">>
                      ELSE IF st = "name" THEN <<"Failed to format product names">>
                      ELSE IF pipe[st].doc # 0
                      THEN <<"Failed to generate metadata for this document">>
                      ELSE <<"Failed to generate metadata">>}
                /\ st = "seo" => ~loadingSeo'
                /\ st = "name" => ~loadingName'
                /\ st = "meta" => ~loadingMeta' ) ]_vars

\* the SEO-name request of a non-empty selection has just failed without a
\* server text
C31_Witness ==
  /\ op = "pipePostFail"
  /\ error = <<"Failed to generate SEO names">>
  /\ ~loadingSeo
  /\ pipe["seo"].phase = "idle"
  /\ selectedProductIds # {}
  /\ Len(products) > 0

\* C32: a successful upload removes from the staged list only files that were
\* part of its request: a file staged while the request was in flight is
\* still staged afterwards.
C32_UploadRemovesOnlySentFiles ==
  [][ op' = "uploadPostOk"
      => \A i \in DOMAIN uploads :
           uploads[i].phase = "post"
             => \A k \in DOMAIN files :
                  (\A j \in DOMAIN uploads[i].files : uploads[i].files[j] # files[k])
                    => \E m \in DOMAIN files' : files'[m] = files[k] ]_vars

\* C33: loadingProducts is true in every state in which a product-list
\* request is awaiting its response.
C33_LoadingWhileFetching ==
  PendingProductFetches # {} => loadingProducts

\* C34: on a loaded page with products, the header checkbox is checked and the
\* toggle button reads "Unselect All" exactly when every selectable product of
\* the page is in the selection set.
C34_AllSelectedControl ==
  Len(products) > 0
    => /\ headerChecked <=> ProductIdsOf(products) \subseteq selectedProductIds
       /\ unselectAllLabel <=> ProductIdsOf(products) \subseteq selectedProductIds

\* C35: a Prev, Next or page-size step that alters (page, pageSize) issues
\* exactly one product-list request and no document-list request; a step that
\* leaves (page, pageSize) as it was issues no request.
C35_PagingFetchesProductsOnly ==
  [][ op' \in {"prevPage", "nextPage", "changePageSize"}
      => IF <<page', pageSize'>> # <<page, pageSize>>
         THEN /\ Cardinality({k \in DOMAIN sent' : sent'[k].kind = "products"}) = 1
              /\ \A k \in DOMAIN sent' : sent'[k].kind # "docs"
         ELSE sent' = <<>> ]_vars

\* C36: a failed product-list fetch leaves products, totalPages and the
\* extra-field schema unchanged and sets the fetch's error; a failed
\* document-list fetch leaves the document list unchanged; and the upload or
\* pipeline handler around a failed refetch goes on as after a successful one:
\* upload goes on to its product refetch and then clears the selection, and
\* neither handler writes its own failure message or withdraws its success
\* message.
C36_FetchFailureIsLocal ==
  [][ /\ ( \/ EffProductsDone(FALSE)
           \/ \E i \in DOMAIN uploads : UploadProductsDone(i, FALSE)
           \/ \E st \in Stages : PipeProductsDone(st, FALSE) )
         => /\ UNCHANGED <<products, totalPages, allExtraFields, success>>
            /\ error' = <<"Failed to fetch products">>
      /\ ( \/ \E shape \in DocShapes : EffDocsDone(FALSE, shape)
           \/ \E i \in DOMAIN uploads, shape \in DocShapes : UploadDocsDone(i, FALSE, shape) )
         => UNCHANGED <<docs, success>>
      /\ \A i \in DOMAIN uploads :
           (\E shape \in DocShapes : UploadDocsDone(i, FALSE, shape))
             => /\ uploads'[i].phase = "products"
                /\ \E k \in DOMAIN sent' : sent'[k].kind = "products"
                /\ loadingUpload'
      /\ (\E i \in DOMAIN uploads : UploadProductsDone(i, FALSE))
           => /\ op' \in {"uploadDone", "uploadDoneInterleaved"}
              /\ selectedProductIds' = {}
      /\ (\E st \in Stages : PipeProductsDone(st, FALSE))
           => op' = "pipeDone" ]_vars

\* a SEO-name handler has ended after its refetch failed: its success message
\* stands next to the fetch's error
C36_Witness ==
  /\ op = "pipeDone"
  /\ error = <<"Failed to fetch products">>
  /\ success # NoMsg
  /\ pipe["seo"].phase = "idle"
  /\ ~loadingSeo

\* C37: the step that completes an upload which passed the local checks, on
\* its success path or its failure path, leaves the vendor selection empty;
\* an upload() call rejected locally (no files, no vendor, or an upload
\* already running) leaves the vendor selection as it was.
C37_VendorResetOnCompletion ==
  [][ /\ op' \in {"uploadPostFail", "uploadDone", "uploadDoneInterleaved"}
         => vendorName' = <<>>
      /\ (op' = "upload" /\ sent' = <<>>) => vendorName' = vendorName ]_vars

\* an upload has completed on its success path and the vendor is empty again
C37_Witness ==
  /\ op = "uploadDone"
  /\ success # NoMsg
  /\ vendorName = <<>>
  /\ ~loadingUpload
  /\ uploads = <<>>

\* C38: in every reachable selection, toggling an id changes the membership
\* of that id and of no other, toggling it twice gives the selection back, and
\* toggling a missing id (0) changes nothing; and a row-checkbox step changes
\* the selection by exactly one id, a product of the loaded page.
C38_ToggleIsInvolution ==
  [][ /\ \A id \in 1..MaxProducts :
           LET once == ToggledSelection(selectedProductIds, id)
           IN /\ id \in once <=> id \notin selectedProductIds
              /\ once \ {id} = selectedProductIds \ {id}
              /\ ToggledSelection(once, id) = selectedProductIds
      /\ ToggledSelection(selectedProductIds, 0) = selectedProductIds
      /\ op' = "toggleSelectProduct"
           => \E id \in ProductIdsOf(products) :
                /\ selectedProductIds' = ToggledSelection(selectedProductIds, id)
                /\ selectedProductIds' # selectedProductIds ]_vars

\* a row checkbox has just ticked the only product of the loaded page, and the
\* selection still holds the id ticked on another page
C38_Witness ==
  /\ op = "toggleSelectProduct"
  /\ Len(products) = 1
  /\ ProductIdsOf(products) \subseteq selectedProductIds
  /\ selectedProductIds \ ProductIdsOf(products) # {}

====
